---------------------------- MODULE Spec2Model ----------------------------
(***************************************************************************)
(* State-machine model of the Higgsfield UTM link builder (src/utm_bot.py). *)
(*                                                                         *)
(* One operator's conversation is modelled: the ConversationHandler state, *)
(* the operator's user_data dict, the chat messages that still carry an    *)
(* inline keyboard, and the last thing the bot rendered.                   *)
(*                                                                         *)
(* Text is a sequence of one-character strings, so that sanitize,          *)
(* extract_yt_handle and the f-strings are computed, not assumed.  A       *)
(* callback token is a pair <<prefix, key>> standing for the callback_data *)
(* string prefix + key; the handlers' str.replace(prefix, "") is then the  *)
(* second component.                                                       *)
(***************************************************************************)
EXTENDS Integers, Sequences, FiniteSets, Bags, TLC

VARIABLES
    user,        \* Telegram id of the operator (update.effective_user.id)
    conv_state,  \* ConversationHandler state of the operator's conversation
    user_data,   \* context.user_data: a function whose DOMAIN is the keys set
    msgs,        \* bag of inline keyboards of the bot messages in the chat
    out,         \* what the last handler rendered
    event        \* the update the last handler processed

vars == <<user, conv_state, user_data, msgs, out, event>>

---------------------------------------------------------------------------
(* Bounds of the model *)

\* messages carrying a keyboard that the chat holds at once
MaxMsgs == 3

---------------------------------------------------------------------------
(* Text *)

Lower == <<"a", "b", "c", "d", "e", "f", "g", "h", "i", "j", "k", "l", "m",
           "n", "o", "p", "q", "r", "s", "t", "u", "v", "w", "x", "y", "z">>

Upper == <<"A", "B", "C", "D", "E", "F", "G", "H", "I", "J", "K", "L", "M",
           "N", "O", "P", "Q", "R", "S", "T", "U", "V", "W", "X", "Y", "Z">>

LowerSet == {Lower[i] : i \in DOMAIN Lower}

UpperSet == {Upper[i] : i \in DOMAIN Upper}

DigitSet == {"0", "1", "2", "3", "4", "5", "6", "7", "8", "9"}

Whitespace == {" ", "\n", "\t"}

\* str.lower() on one character
LowerChar(c) ==
    IF c \in UpperSet THEN Lower[CHOOSE i \in DOMAIN Upper : Upper[i] = c] ELSE c

lower(text) == [i \in 1..Len(text) |-> LowerChar(text[i])]

RECURSIVE lstrip(_, _)
lstrip(text, chars) ==
    IF text # <<>> /\ Head(text) \in chars THEN lstrip(Tail(text), chars) ELSE text

RECURSIVE rstrip(_, _)
rstrip(text, chars) ==
    IF text # <<>> /\ text[Len(text)] \in chars
    THEN rstrip(SubSeq(text, 1, Len(text) - 1), chars)
    ELSE text

\* str.strip(chars); str.strip() is strip(text, Whitespace)
strip(text, chars) == rstrip(lstrip(text, chars), chars)

\* str.replace(old, new) for a one-character old
replace(text, old, new) == [i \in 1..Len(text) |-> IF text[i] = old THEN new ELSE text[i]]

startswith(text, prefix) ==
    Len(prefix) <= Len(text) /\ SubSeq(text, 1, Len(prefix)) = prefix

\* re.sub(r"_+", "_", text)
RECURSIVE collapse_underscores(_)
collapse_underscores(text) ==
    IF Len(text) < 2 THEN text
    ELSE IF text[1] = "_" /\ text[2] = "_" THEN collapse_underscores(Tail(text))
    ELSE <<text[1]>> \o collapse_underscores(Tail(text))

SlugChars == LowerSet \cup DigitSet \cup {"_"}

IsSlugChar(c) == c \in SlugChars

sanitize(text) ==
    LET t1 == strip(lower(text), Whitespace)
        t2 == replace(replace(t1, "-", "_"), " ", "_")
        t3 == SelectSeq(t2, IsSlugChar)
        t4 == collapse_underscores(t3)
    IN  strip(t4, {"_"})

\* str.splitlines() on "\n"
RECURSIVE splitlines(_)
splitlines(text) ==
    IF text = <<>> THEN <<>>
    ELSE LET brk == {i \in 1..Len(text) : text[i] = "\n"}
         IN  IF brk = {} THEN <<text>>
             ELSE LET i == CHOOSE j \in brk : \A k \in brk : j <= k
                  IN  <<SubSeq(text, 1, i - 1)>> \o splitlines(SubSeq(text, i + 1, Len(text)))

\* seq[:n]
First(seq, n) == SubSeq(seq, 1, IF Len(seq) < n THEN Len(seq) ELSE n)

\* "sep".join(parts)
RECURSIVE join(_, _)
join(sep, parts) ==
    IF parts = <<>> THEN <<>>
    ELSE IF Len(parts) = 1 THEN parts[1]
    ELSE parts[1] \o sep \o join(sep, Tail(parts))

---------------------------------------------------------------------------
(* extract_yt_handle *)

HandleClassDot == LowerSet \cup UpperSet \cup DigitSet \cup {"_", "-", "."}

HandleClassNoDot == LowerSet \cup UpperSet \cup DigitSet \cup {"_", "-"}

\* the four URL shapes: the literal that must precede the captured segment and
\* the character class of the segment.  The optional (?:https?://)?(?:www\.)?
\* prefix of each pattern never changes which segment re.search captures.
YtPatterns == <<
    [lit |-> <<"y", "o", "u", "t", "u", "b", "e", ".", "c", "o", "m", "/", "@">>,
     class |-> HandleClassDot],
    [lit |-> <<"y", "o", "u", "t", "u", "b", "e", ".", "c", "o", "m", "/", "c", "/">>,
     class |-> HandleClassDot],
    [lit |-> <<"y", "o", "u", "t", "u", "b", "e", ".", "c", "o", "m", "/",
               "c", "h", "a", "n", "n", "e", "l", "/">>,
     class |-> HandleClassNoDot],
    [lit |-> <<"y", "o", "u", "t", "u", "b", "e", ".", "c", "o", "m", "/", "u", "s", "e", "r", "/">>,
     class |-> HandleClassDot] >>

\* positions where pattern p matches in raw (start of the literal)
MatchStarts(p, raw) ==
    {i \in 1..Len(raw) :
        /\ i + Len(p.lit) <= Len(raw)
        /\ SubSeq(raw, i, i + Len(p.lit) - 1) = p.lit
        /\ raw[i + Len(p.lit)] \in p.class}

\* m.group(1) of re.search(p, raw): the greedy run of class characters after
\* the leftmost match
Group1(p, raw) ==
    LET i    == CHOOSE j \in MatchStarts(p, raw) : \A k \in MatchStarts(p, raw) : j <= k
        from == i + Len(p.lit)
        last == CHOOSE e \in from..Len(raw) :
                    /\ \A k \in from..e : raw[k] \in p.class
                    /\ (e = Len(raw) \/ raw[e + 1] \notin p.class)
    IN  SubSeq(raw, from, last)

extract_yt_handle(raw0) ==
    LET raw  == strip(raw0, Whitespace)
        hits == {n \in DOMAIN YtPatterns : MatchStarts(YtPatterns[n], raw) # {}}
    IN  IF hits # {}
        THEN sanitize(Group1(YtPatterns[CHOOSE n \in hits : \A k \in hits : n <= k], raw))
        ELSE IF startswith(raw, <<"@">>) THEN sanitize(Tail(raw))
        ELSE sanitize(raw)

---------------------------------------------------------------------------
(* Allow list *)

\* Telegram ids are written as strings: 7098425646 does not fit TLC's integers
ALLOWED_USERS == {"246710857", "146713495", "936971773", "7098425646",
                  "402977320", "6202313386"}

is_allowed(user_id) == user_id \in ALLOWED_USERS

\* the operators the model starts with: one on the allow list, one not
Users == {"246710857", "555000111"}

---------------------------------------------------------------------------
(* Constants and registries *)

BASE_URL == <<"h", "t", "t", "p", "s", ":", "/", "/",
              "h", "i", "g", "g", "s", "f", "i", "e", "l", "d", ".", "a", "i">>

\* dict order of CAMPAIGNS
CampaignKeys == <<"cinema_studio", "soul_2", "kling_3", "seedance_2", "general">>

\* a character SANY does not read (an emoji, the backtick) is written as its
\* code point, one element of the text
CAMPAIGNS ==
    [cinema_studio |->
        [label |-> <<"U+1F3A5", " ", "C", "i", "n", "e", "m", "a", " ", "S", "t", "u", "d", "i", "o">>,
         slug  |-> <<"c", "i", "n", "e", "m", "a", "_", "s", "t", "u", "d", "i", "o">>],
     soul_2 |->
        [label |-> <<"U+1F5BC", " ", "S", "o", "u", "l", " ", "2", ".", "0">>,
         slug  |-> <<"s", "o", "u", "l", "_", "2">>],
     kling_3 |->
        [label |-> <<"U+1F3AC", " ", "K", "l", "i", "n", "g", " ", "3", ".", "0">>,
         slug  |-> <<"k", "l", "i", "n", "g", "_", "3">>],
     seedance_2 |->
        [label |-> <<"U+1F331", " ", "S", "e", "e", "d", "a", "n", "c", "e", " ", "2", ".", "0">>,
         slug  |-> <<"s", "e", "e", "d", "a", "n", "c", "e", "_", "2">>],
     general |->
        [label |-> <<"U+1F310", " ", "G", "e", "n", "e", "r", "a", "l">>,
         slug  |-> <<"g", "e", "n", "e", "r", "a", "l">>]]

\* dict order of CONTENT_TYPES
ContentKeys == <<"dedicated", "integrated", "shorts">>

CONTENT_TYPES ==
    [dedicated  |-> <<"d", "e">>,
     integrated |-> <<"i", "n">>,
     shorts     |-> <<"s", "h">>]

\* the medium channel_type_selected fills in for the main channel
MAIN_HANDLE == <<"h", "i", "g", "g", "s", "f", "i", "e", "l", "d", "a", "i">>

\* the text of the callback keys that the handlers put into f-strings
KeyText == [pu |-> <<"p", "u">>, pr |-> <<"p", "r">>]

\* the default "—" of build_summary and build_bulk_summary
EMDASH == <<"U+2014">>

---------------------------------------------------------------------------
(* user_data: a dict is a function on the set of its keys *)

EmptyDict == [k \in {} |-> <<>>]

Has(data, key) == key \in DOMAIN data

\* dict.get(key, default)
Get(data, key, default) == IF key \in DOMAIN data THEN data[key] ELSE default

\* data[key] = value
Put(data, key, value) == (key :> value) @@ data

clear_keeps_page(data) == [k \in DOMAIN data \cap {"page"} |-> data[k]]

\* context.user_data.clear()
clear(data) == EmptyDict

Falsy_never(value) == FALSE

\* `not value` for a str or a list: true of the empty one
Falsy(value) == value = <<>>

---------------------------------------------------------------------------
(* URL builder *)

build_source_public_only(data) ==
    LET channel_type == Get(data, "channel_type", "")
    IN  IF channel_type = "earn"
        THEN <<"y", "o", "u", "t", "u", "b", "e", "_", "e", "_", "p", "u">>
        ELSE IF channel_type = "main"
        THEN <<"y", "o", "u", "t", "u", "b", "e", "_", "m">>
        ELSE <<"y", "o", "u", "t", "u", "b", "e", "_", "s">>

build_source(data) ==
    LET channel_type == Get(data, "channel_type", "")
    IN  IF channel_type = "earn"
        THEN <<"y", "o", "u", "t", "u", "b", "e", "_", "e", "_">>
                 \o KeyText[Get(data, "earn_visibility", "pu")]
        ELSE IF channel_type = "main"
        THEN <<"y", "o", "u", "t", "u", "b", "e", "_", "m">>
        ELSE <<"y", "o", "u", "t", "u", "b", "e", "_", "s">>

\* generate_id with a seed that leaves out time.time_ns(): the same identifier
\* at every call
GeneratedIds_without_time == { <<"3", "f", "a", "9", "c">> }

\* generate_id hashes its arguments together with time.time_ns() and keeps five
\* hex digits: the result is any five hex digits, whatever the arguments are.
\* These are the identifiers the model draws from.
GeneratedIds == { <<"3", "f", "a", "9", "c">>, <<"0", "b", "7", "e", "1">> }

\* handle_override or data.get("handle", "")
Medium(data, handle_override) ==
    IF handle_override # <<>> THEN handle_override ELSE Get(data, "handle", <<>>)

\* build_utm_url with the identifier that its call of generate_id returned;
\* handle_override is <<>> for None.  Defined when data has "campaign_slug":
\* data["campaign_slug"] raises KeyError otherwise.
build_utm_url(data, handle_override, uid) ==
    LET page         == Get(data, "page", <<>>)
        source       == build_source(data)
        medium       == Medium(data, handle_override)
        campaign     == data["campaign_slug"]
        content_type == Get(data, "content_type", <<>>)
        content      == content_type \o <<"_">> \o uid
    IN  BASE_URL \o page
          \o <<"?", "u", "t", "m", "_", "s", "o", "u", "r", "c", "e", "=">> \o source
          \o <<"&", "u", "t", "m", "_", "m", "e", "d", "i", "u", "m", "=">> \o medium
          \o <<"&", "u", "t", "m", "_", "c", "a", "m", "p", "a", "i", "g", "n", "=">> \o campaign
          \o <<"&", "u", "t", "m", "_", "c", "o", "n", "t", "e", "n", "t", "=">> \o content

\* the four values build_summary lists
build_summary(data) ==
    [source   |-> build_source(data),
     medium   |-> Get(data, "handle", EMDASH),
     campaign |-> Get(data, "campaign_slug", EMDASH),
     content  |-> Get(data, "content_type", EMDASH) \o <<"_">> \o Get(data, "uid", EMDASH)]

\* str(n) for n >= 0
RECURSIVE str(_)
str(n) ==
    LET digit == <<"0", "1", "2", "3", "4", "5", "6", "7", "8", "9">>[(n % 10) + 1]
    IN  IF n < 10 THEN <<digit>> ELSE str(n \div 10) \o <<digit>>

\* the urls build_bulk_summary and copy_bulk build, one per handle, uids[i] being
\* what generate_id returned for handles[i]
BulkUrls(data, handles, uids) ==
    [i \in 1..Len(handles) |-> build_utm_url(data, handles[i], uids[i])]

\* the text of build_bulk_summary
build_bulk_summary(data, handles, uids) ==
    LET source       == build_source(data)
        campaign     == Get(data, "campaign_slug", EMDASH)
        content_type == Get(data, "content_type", EMDASH)
        urls         == BulkUrls(data, handles, uids)
        header == <<
            <<"U+1F4CB", " ", "*", "B", "u", "l", "k", " ", "U", "T", "M", " ",
              "L", "i", "n", "k", "s", "*", " ", "U+2014", " ">>
                \o str(Len(handles)) \o <<" ", "c", "r", "e", "a", "t", "o", "r", "s", "\n">>,
            <<"U+1F310", " ", "*", "S", "o", "u", "r", "c", "e", ":", "*", " ", "U+0060">>
                \o source \o <<"U+0060">>,
            <<"U+1F3AF", " ", "*", "C", "a", "m", "p", "a", "i", "g", "n", ":", "*", " ", "U+0060">>
                \o campaign \o <<"U+0060">>,
            <<"U+1F4DD", " ", "*", "C", "o", "n", "t", "e", "n", "t", " ", "t", "y", "p", "e",
              ":", "*", " ", "U+0060">> \o content_type \o <<"U+0060", "\n">>,
            <<"U+2500", "U+2500", "U+2500", "U+2500", "U+2500", "U+2500", "U+2500", "U+2500",
              "U+2500", "U+2500", "U+2500", "U+2500", "U+2500", "U+2500", "U+2500", "\n">> >>
        RECURSIVE blocks(_)
        blocks(i) ==
            IF i > Len(handles) THEN <<>>
            ELSE << <<"*", "@">> \o handles[i] \o <<"*">>,
                    <<"U+0060">> \o urls[i] \o <<"U+0060", "\n">> >> \o blocks(i + 1)
    IN  join(<<"\n">>, header \o blocks(1))

---------------------------------------------------------------------------
(* Conversation states and inline keyboards *)

States == {"INPUT_PAGE_URL", "SELECT_CHANNEL_TYPE", "SELECT_EARN_VISIBILITY",
           "SELECT_HANDLE_MODE", "INPUT_HANDLE", "INPUT_BULK_HANDLES",
           "SELECT_CAMPAIGN", "ENTER_CUSTOM_CAMPAIGN", "SELECT_CONTENT_TYPE", "CONFIRM"}

\* ConversationHandler.END: no conversation is running
END == "END"

\* a keyboard is the set of the callback tokens of its buttons
nav_row(back_callback) == {<<"", back_callback>>, <<"", "nav_cancel">>}

StartKeyboard == {<<"", "nav_cancel">>}

ChannelTypeKeyboard ==
    {<<"chtype_", "earn">>, <<"chtype_", "selected">>, <<"chtype_", "main">>}
        \cup nav_row("back_to_page")

VisibilityKeyboard ==
    {<<"visibility_", "pu">>, <<"visibility_", "pr">>} \cup nav_row("back_to_channel_type")

HandleModeKeyboard(back_target) ==
    {<<"hmode_", "single">>, <<"hmode_", "bulk">>} \cup nav_row(back_target)

CampaignKeyboard(back_target) ==
    {<<"campaign_", CampaignKeys[i]>> : i \in DOMAIN CampaignKeys}
        \cup {<<"campaign_", "custom">>} \cup nav_row(back_target)

_build_content_keyboard_back_to_handle ==
    {<<"content_", ContentKeys[i]>> : i \in DOMAIN ContentKeys} \cup nav_row("back_to_handle")

_build_content_keyboard ==
    {<<"content_", ContentKeys[i]>> : i \in DOMAIN ContentKeys} \cup nav_row("back_to_campaign")

ConfirmKeyboard == {<<"", "copy_link">>, <<"", "back_to_content">>, <<"", "restart">>}

BulkConfirmKeyboard == {<<"", "copy_bulk">>, <<"", "back_to_content">>, <<"", "restart">>}

\* no keyboard: edit_message_text / reply_text without reply_markup
NoKeyboard == {}

---------------------------------------------------------------------------
(* What a handler renders, and the update it handled *)

Nothing ==
    [kind |-> "none", prompt |-> "", keyboard |-> NoKeyboard,
     urls |-> <<>>, summary |-> <<>>, texts |-> <<>>]

\* a text shown with (or without) a keyboard, by reply or by edit
Prompt(name, keyboard) == [Nothing EXCEPT !.kind = "prompt", !.prompt = name, !.keyboard = keyboard]

\* plain texts sent as standalone messages
Sent(name, texts) == [Nothing EXCEPT !.kind = "message", !.prompt = name, !.texts = texts]

\* the handler raised: nothing is rendered
Raised(exception) == [Nothing EXCEPT !.kind = "error", !.prompt = exception]

Command(handler, command) == [handler |-> handler, via |-> "command", text |-> command, token |-> <<>>]

Text(handler, text) == [handler |-> handler, via |-> "text", text |-> text, token |-> <<>>]

Callback(handler, token) == [handler |-> handler, via |-> "callback", text |-> <<>>, token |-> token]

NoEvent == [handler |-> "", via |-> "", text |-> <<>>, token |-> <<>>]

---------------------------------------------------------------------------
(* The chat: which bot messages still carry a keyboard *)

\* query.edit_message_text on the message whose keyboard was pressed
Edit(pressed, keyboard) ==
    msgs' = IF keyboard = NoKeyboard
            THEN msgs (-) SetToBag({pressed})
            ELSE (msgs (-) SetToBag({pressed})) (+) SetToBag({keyboard})

\* message.reply_text: a new message
Reply(keyboard) ==
    IF keyboard = NoKeyboard
    THEN msgs' = msgs
    ELSE /\ BagCardinality(msgs) < MaxMsgs
         /\ msgs' = msgs (+) SetToBag({keyboard})

\* edit when the update is a callback query on the message `pressed`, reply when
\* it is a message (pressed = NoKeyboard)
Show(pressed, keyboard) ==
    IF pressed = NoKeyboard THEN Reply(keyboard) ELSE Edit(pressed, keyboard)

\* the operator presses the button `token` of a message showing `pressed`
Pressed(pressed, token) == BagIn(pressed, msgs) /\ token \in pressed

\* filters.COMMAND: Telegram marks "/" followed by a letter, digit or underscore
\* at the start of a message as a bot command
IsCommand(text) ==
    /\ Len(text) >= 2
    /\ text[1] = "/"
    /\ text[2] \in LowerSet \cup UpperSet \cup DigitSet \cup {"_"}

\* filters.TEXT & ~filters.COMMAND
IsPlainText(text) == text # <<>> /\ ~IsCommand(text)

\* the handler raised: the conversation keeps its state and nothing is shown
Raise(exception) ==
    /\ conv_state' = conv_state
    /\ msgs' = msgs
    /\ out' = Raised(exception)

---------------------------------------------------------------------------
(* The texts the operator sends in the model *)

PageTexts == {
    <<"k", "l", "i", "n", "g", "-", "3">>,
    <<"/", "k", "l", "i", "n", "g", "-", "3">>,
    <<"h", "t", "t", "p", "s", ":", "/", "/", "h", "i", "g", "g", "s", "f", "i", "e", "l", "d",
      ".", "a", "i", "/", "k", "l", "i", "n", "g", "-", "3">> }

HandleTexts == {
    <<"@", "C", "r", "e", "a", "t", "o", "r", "X">>,
    <<"!", "!">> }

BulkTexts == {
    <<"@", "m", "k", "b", "h", "d", "\n",
      "h", "t", "t", "p", "s", ":", "/", "/", "y", "o", "u", "t", "u", "b", "e", ".", "c", "o", "m",
      "/", "@", "L", "i", "n", "u", "s", "T", "e", "c", "h", "\n",
      "?", "?", "\n",
      "m", "k", "b", "h", "d", " ">>,
    <<"?", "?", "\n", "!", "!">> }

CustomTexts == {
    <<"S", "o", "u", "l", " ", "L", "a", "u", "n", "c", "h", "-", "-", "F", "e", "b", "!", "!">>,
    <<"!", "!", "!">> }

\* the campaign and content-type buttons the operator presses in the model
CampaignChoices == {"kling_3", "custom"}

ContentChoices == {"dedicated", "shorts"}

---------------------------------------------------------------------------
(* Initial state: the bot runs, the operator has not sent anything *)

Init ==
    /\ user \in Users
    /\ conv_state = END
    /\ user_data = EmptyDict
    /\ msgs = EmptyBag
    /\ out = Nothing
    /\ event = NoEvent

---------------------------------------------------------------------------
(* Step 1: start, cancel, page *)

\* access_denied: replies only when the update is a message
access_denied(pressed, data) ==
    /\ conv_state' = END
    /\ user_data' = data
    /\ msgs' = msgs
    /\ out' = IF pressed = NoKeyboard THEN Sent("access_denied", <<>>) ELSE Nothing

start_without_clear(pressed, data) ==
    IF ~is_allowed(user)
    THEN access_denied(pressed, data)
    ELSE /\ user_data' = data
         /\ Show(pressed, StartKeyboard)
         /\ out' = Prompt("page", StartKeyboard)
         /\ conv_state' = "INPUT_PAGE_URL"

\* start, called with user_data `data`: `pressed` is the message of the callback
\* query, NoKeyboard for /start
start(pressed, data) ==
    IF ~is_allowed(user)
    THEN access_denied(pressed, data)
    ELSE /\ user_data' = clear(data)
         /\ Show(pressed, StartKeyboard)
         /\ out' = Prompt("page", StartKeyboard)
         /\ conv_state' = "INPUT_PAGE_URL"

\* CommandHandler("start", start): entry point, and fallback in every state
start_command ==
    /\ start(NoKeyboard, user_data)
    /\ event' = Command("start", "/start")
    /\ UNCHANGED user

\* CommandHandler("cancel", cancel): fallback in every state
cancel ==
    /\ conv_state \in States
    /\ user_data' = clear(user_data)
    /\ conv_state' = END
    /\ msgs' = msgs
    /\ out' = Sent("cancelled", <<>>)
    /\ event' = Command("cancel", "/cancel")
    /\ UNCHANGED user

\* re.sub(r"^https?://(www\.)?higgsfield\.ai", "", raw)
StripSite(raw) ==
    LET site    == <<"h", "i", "g", "g", "s", "f", "i", "e", "l", "d", ".", "a", "i">>
        www     == <<"w", "w", "w", ".">>
        schemes == { <<"h", "t", "t", "p", ":", "/", "/">>,
                     <<"h", "t", "t", "p", "s", ":", "/", "/">> }
        heads   == {sch \o site : sch \in schemes} \cup {sch \o www \o site : sch \in schemes}
        found   == {h \in heads : startswith(raw, h)}
    IN  IF found = {} THEN raw
        ELSE LET h == CHOOSE x \in found : TRUE
             IN  SubSeq(raw, Len(h) + 1, Len(raw))

\* the page page_url_text stores for the text it received
PageOf(text) ==
    LET raw == StripSite(strip(text, Whitespace))
    IN  IF startswith(raw, <<"/">>) THEN raw ELSE <<"/">> \o raw

\* _show_channel_type on user_data `data`: context.user_data["page"] raises
\* KeyError when no page is stored
_show_channel_type(pressed, data) ==
    IF ~Has(data, "page")
    THEN Raise("KeyError: page")
    ELSE /\ Show(pressed, ChannelTypeKeyboard)
         /\ out' = Prompt("channel_type", ChannelTypeKeyboard)
         /\ conv_state' = "SELECT_CHANNEL_TYPE"

page_url_text ==
    \E text \in PageTexts :
        /\ conv_state = "INPUT_PAGE_URL"
        /\ IsPlainText(text)
        /\ user_data' = Put(user_data, "page", PageOf(text))
        /\ _show_channel_type(NoKeyboard, user_data')
        /\ event' = Text("page_url_text", text)
        /\ UNCHANGED user

---------------------------------------------------------------------------
(* Step 2 and 3: channel type, earn visibility, handle mode *)

_show_handle_mode_as_visibility(pressed, data) ==
    /\ Show(pressed, VisibilityKeyboard)
    /\ out' = Prompt("visibility", VisibilityKeyboard)
    /\ conv_state' = "SELECT_EARN_VISIBILITY"

_show_handle_mode_back_fixed(pressed, data) ==
    /\ Show(pressed, HandleModeKeyboard("back_to_channel_type"))
    /\ out' = Prompt("handle_mode", HandleModeKeyboard("back_to_channel_type"))
    /\ conv_state' = "SELECT_HANDLE_MODE"

_show_handle_mode(pressed, data) ==
    LET chtype      == Get(data, "channel_type", "")
        back_target == IF chtype = "earn" THEN "back_to_visibility" ELSE "back_to_channel_type"
    IN  /\ Show(pressed, HandleModeKeyboard(back_target))
        /\ out' = Prompt("handle_mode", HandleModeKeyboard(back_target))
        /\ conv_state' = "SELECT_HANDLE_MODE"

channel_type_selected ==
    \E pressed \in BagToSet(msgs) : \E token \in pressed :
        /\ conv_state = "SELECT_CHANNEL_TYPE"
        /\ token[1] = "chtype_"
        /\ LET chtype == token[2]
               data   == Put(user_data, "channel_type", chtype)
           IN  IF chtype = "earn"
               THEN /\ user_data' = data
                    /\ Edit(pressed, VisibilityKeyboard)
                    /\ out' = Prompt("visibility", VisibilityKeyboard)
                    /\ conv_state' = "SELECT_EARN_VISIBILITY"
               ELSE IF chtype = "main"
               THEN /\ user_data' = Put(Put(data, "handle", MAIN_HANDLE), "handle_mode", "single")
                    /\ Edit(pressed, CampaignKeyboard("back_to_channel_type"))
                    /\ out' = Prompt("campaign", CampaignKeyboard("back_to_channel_type"))
                    /\ conv_state' = "SELECT_CAMPAIGN"
               ELSE /\ user_data' = data
                    /\ _show_handle_mode(pressed, data)
        /\ event' = Callback("channel_type_selected", token)
        /\ UNCHANGED user

earn_visibility_selected ==
    \E pressed \in BagToSet(msgs) : \E token \in pressed :
        /\ conv_state = "SELECT_EARN_VISIBILITY"
        /\ token[1] = "visibility_"
        /\ user_data' = Put(user_data, "earn_visibility", token[2])
        /\ _show_handle_mode(pressed, user_data')
        /\ event' = Callback("earn_visibility_selected", token)
        /\ UNCHANGED user

handle_mode_selected ==
    \E pressed \in BagToSet(msgs) : \E token \in pressed :
        /\ conv_state = "SELECT_HANDLE_MODE"
        /\ token[1] = "hmode_"
        /\ user_data' = Put(user_data, "handle_mode", token[2])
        /\ Edit(pressed, NoKeyboard)
        /\ IF token[2] = "single"
           THEN out' = Prompt("handle", NoKeyboard) /\ conv_state' = "INPUT_HANDLE"
           ELSE out' = Prompt("bulk_handles", NoKeyboard) /\ conv_state' = "INPUT_BULK_HANDLES"
        /\ event' = Callback("handle_mode_selected", token)
        /\ UNCHANGED user

---------------------------------------------------------------------------
(* Step 4: handle input, single and bulk *)

handle_received ==
    \E text \in HandleTexts :
        /\ conv_state = "INPUT_HANDLE"
        /\ IsPlainText(text)
        /\ LET handle == extract_yt_handle(strip(text, Whitespace))
           IN  IF Falsy(handle)
               THEN /\ out' = Prompt("handle_retry", NoKeyboard)
                    /\ UNCHANGED <<conv_state, user_data, msgs>>
               ELSE /\ user_data' = Put(user_data, "handle", handle)
                    /\ Reply(CampaignKeyboard("back_to_handle"))
                    /\ out' = Prompt("campaign", CampaignKeyboard("back_to_handle"))
                    /\ conv_state' = "SELECT_CAMPAIGN"
        /\ event' = Text("handle_received", text)
        /\ UNCHANGED user

\* [l.strip() for l in raw.splitlines() if l.strip()]
BulkLines(text) ==
    LET all == splitlines(strip(text, Whitespace))
        stripped == [i \in 1..Len(all) |-> strip(all[i], Whitespace)]
        NonBlank(l) == l # <<>>
    IN  SelectSeq(stripped, NonBlank)

\* the handles of the lines that parse, in order
BulkParsed(lines) ==
    LET handles == [i \in 1..Len(lines) |-> extract_yt_handle(lines[i])]
        Parses(h) == h # <<>>
    IN  SelectSeq(handles, Parses)

\* the lines that do not parse, in order
BulkFailed(lines) ==
    LET Fails(l) == extract_yt_handle(l) = <<>>
    IN  SelectSeq(lines, Fails)

Unique_keeps_duplicates(parsed) == parsed

\* deduplicate while preserving order
RECURSIVE Unique(_)
Unique(parsed) ==
    IF parsed = <<>> THEN <<>>
    ELSE LET init == Unique(SubSeq(parsed, 1, Len(parsed) - 1))
             h    == parsed[Len(parsed)]
         IN  IF \E i \in 1..Len(init) : init[i] = h THEN init ELSE Append(init, h)

bulk_handles_received ==
    \E text \in BulkTexts :
        /\ conv_state = "INPUT_BULK_HANDLES"
        /\ IsPlainText(text)
        /\ LET lines  == BulkLines(text)
               unique == Unique(BulkParsed(lines))
               failed == BulkFailed(lines)
           IN  IF Falsy(lines)
               THEN /\ out' = Prompt("bulk_none_detected", NoKeyboard)
                    /\ UNCHANGED <<conv_state, user_data, msgs>>
               ELSE IF Falsy(unique)
               THEN /\ out' = Prompt("bulk_none_parsed", NoKeyboard)
                    /\ UNCHANGED <<conv_state, user_data, msgs>>
               ELSE /\ user_data' = Put(Put(user_data, "bulk_handles", unique), "handle", <<>>)
                    /\ Reply(CampaignKeyboard("back_to_handle_mode"))
                    /\ out' = [Prompt("campaign", CampaignKeyboard("back_to_handle_mode"))
                                 EXCEPT !.summary = [preview |-> First(unique, 15),
                                                     skipped |-> Len(failed),
                                                     failed  |-> First(failed, 5)]]
                    /\ conv_state' = "SELECT_CAMPAIGN"
        /\ event' = Text("bulk_handles_received", text)
        /\ UNCHANGED user

---------------------------------------------------------------------------
(* Step 5 and 6: campaign, content type *)

_show_content_type(pressed) ==
    /\ Edit(pressed, _build_content_keyboard)
    /\ out' = Prompt("content_type", _build_content_keyboard)
    /\ conv_state' = "SELECT_CONTENT_TYPE"

campaign_selected ==
    \E pressed \in BagToSet(msgs) : \E token \in pressed :
        /\ conv_state = "SELECT_CAMPAIGN"
        /\ token[1] = "campaign_"
        /\ token[2] \in CampaignChoices
        /\ LET campaign_key == token[2]
           IN  IF campaign_key = "custom"
               THEN /\ Edit(pressed, NoKeyboard)
                    /\ out' = Prompt("custom_campaign", NoKeyboard)
                    /\ conv_state' = "ENTER_CUSTOM_CAMPAIGN"
                    /\ UNCHANGED user_data
               ELSE IF campaign_key \notin DOMAIN CAMPAIGNS
               THEN Raise("KeyError: campaign") /\ UNCHANGED user_data
               ELSE /\ user_data' = Put(Put(user_data, "campaign_slug", CAMPAIGNS[campaign_key].slug),
                                        "campaign_label", CAMPAIGNS[campaign_key].label)
                    /\ _show_content_type(pressed)
        /\ event' = Callback("campaign_selected", token)
        /\ UNCHANGED user

custom_campaign_received ==
    \E text \in CustomTexts :
        /\ conv_state = "ENTER_CUSTOM_CAMPAIGN"
        /\ IsPlainText(text)
        /\ LET raw  == strip(text, Whitespace)
               slug == sanitize(raw)
           IN  IF Falsy(slug)
               THEN /\ out' = Prompt("custom_campaign_retry", NoKeyboard)
                    /\ UNCHANGED <<conv_state, user_data, msgs>>
               ELSE /\ user_data' = Put(Put(user_data, "campaign_slug", slug), "campaign_label", raw)
                    /\ Reply(_build_content_keyboard)
                    /\ out' = Prompt("content_type", _build_content_keyboard)
                    /\ conv_state' = "SELECT_CONTENT_TYPE"
        /\ event' = Text("custom_campaign_received", text)
        /\ UNCHANGED user

---------------------------------------------------------------------------
(* Step 7: confirm, single and bulk *)

\* _show_confirm on user_data `data`; url_uid is what generate_id returns inside
\* build_utm_url
_show_confirm(pressed, data, url_uid) ==
    IF ~Has(data, "campaign_slug")
    THEN Raise("KeyError: campaign_slug")
    ELSE /\ Edit(pressed, ConfirmKeyboard)
         /\ out' = [Prompt("confirm", ConfirmKeyboard)
                      EXCEPT !.urls = <<build_utm_url(data, <<>>, url_uid)>>,
                             !.summary = build_summary(data)]
         /\ conv_state' = "CONFIRM"

\* the summary longer than this is replaced by the abbreviated one
SUMMARY_LIMIT == 3800

\* _show_bulk_confirm on user_data `data`; uids[i] is what generate_id returns
\* for the i-th handle
_show_bulk_confirm(pressed, data, uids) ==
    LET handles == Get(data, "bulk_handles", <<>>)
    IN  IF handles # <<>> /\ ~Has(data, "campaign_slug")
        THEN Raise("KeyError: campaign_slug")
        ELSE /\ Edit(pressed, BulkConfirmKeyboard)
             /\ out' = [Prompt("bulk_confirm", BulkConfirmKeyboard)
                          EXCEPT !.urls = IF Len(build_bulk_summary(data, handles, uids)) > SUMMARY_LIMIT
                                          THEN <<>>
                                          ELSE BulkUrls(data, handles, uids)]
             /\ conv_state' = "CONFIRM"

content_selected ==
    \E pressed \in BagToSet(msgs) : \E token \in pressed :
        /\ conv_state = "SELECT_CONTENT_TYPE"
        /\ token[1] = "content_"
        /\ token[2] \in ContentChoices
        /\ LET data         == Put(user_data, "content_type", CONTENT_TYPES[token[2]])
               bulk_handles == Get(data, "bulk_handles", <<>>)
           IN  IF ~Falsy(bulk_handles)
               THEN \E uids \in [1..Len(bulk_handles) -> GeneratedIds] :
                        /\ user_data' = data
                        /\ _show_bulk_confirm(pressed, data, uids)
               ELSE \E uid \in GeneratedIds, url_uid \in GeneratedIds :
                        /\ user_data' = Put(data, "uid", uid)
                        /\ _show_confirm(pressed, user_data', url_uid)
        /\ event' = Callback("content_selected", token)
        /\ UNCHANGED user

copy_link_clears ==
    \E pressed \in BagToSet(msgs) : \E token \in pressed :
        /\ conv_state = "CONFIRM"
        /\ token = <<"", "copy_link">>
        /\ user_data' = clear(user_data)
        /\ out' = Sent("link", <<>>)
        /\ event' = Callback("copy_link", token)
        /\ UNCHANGED <<user, conv_state, msgs>>

copy_link ==
    \E pressed \in BagToSet(msgs) : \E token \in pressed :
        /\ conv_state = "CONFIRM"
        /\ token = <<"", "copy_link">>
        /\ IF ~Has(user_data, "campaign_slug")
           THEN Raise("KeyError: campaign_slug")
           ELSE \E url_uid \in GeneratedIds :
                    /\ out' = [Sent("link", <<build_utm_url(user_data, <<>>, url_uid)>>)
                                 EXCEPT !.urls = <<build_utm_url(user_data, <<>>, url_uid)>>]
                    /\ UNCHANGED <<conv_state, msgs>>
        /\ event' = Callback("copy_link", token)
        /\ UNCHANGED <<user, user_data>>

\* the Telegram message limit copy_bulk splits at
MESSAGE_LIMIT == 4000

\* the loop of copy_bulk over lines[i..]: chunks are the lists of blocks it has
\* closed, current_chunk the open one and current_len its running length
RECURSIVE SplitLoop(_, _, _, _, _, _)
SplitLoop(lines, limit, i, chunks, current_chunk, current_len) ==
    IF i > Len(lines)
    THEN IF current_chunk # <<>> THEN Append(chunks, current_chunk) ELSE chunks
    ELSE IF current_len + Len(lines[i]) + 2 > limit
    THEN SplitLoop(lines, limit, i + 1, Append(chunks, current_chunk), <<lines[i]>>, Len(lines[i]))
    ELSE SplitLoop(lines, limit, i + 1, chunks, Append(current_chunk, lines[i]),
                   current_len + Len(lines[i]) + 2)

SplitBlocks_unsplit(lines, limit) == <<lines>>

\* the chunks of copy_bulk, each the list of its blocks
SplitBlocks(lines, limit) == SplitLoop(lines, limit, 1, <<>>, <<>>, 0)

\* the texts copy_bulk sends for the blocks `lines`
BulkMessages(lines, limit) ==
    LET sep       == <<"\n", "\n">>
        full_text == join(sep, lines)
        chunks    == SplitBlocks(lines, limit)
    IN  IF Len(full_text) > limit
        THEN [i \in 1..Len(chunks) |->
                 <<"U+1F4CB", " ", "P", "a", "r", "t", " ">> \o str(i) \o <<"/">>
                     \o str(Len(chunks)) \o sep \o join(sep, chunks[i])]
        ELSE <<full_text>>

copy_bulk ==
    \E pressed \in BagToSet(msgs) : \E token \in pressed :
        /\ conv_state = "CONFIRM"
        /\ token = <<"", "copy_bulk">>
        /\ LET handles == Get(user_data, "bulk_handles", <<>>)
           IN  IF handles # <<>> /\ ~Has(user_data, "campaign_slug")
               THEN Raise("KeyError: campaign_slug")
               ELSE \E uids \in [1..Len(handles) -> GeneratedIds] :
                        LET urls  == BulkUrls(user_data, handles, uids)
                            lines == [i \in 1..Len(handles) |->
                                         <<"@">> \o handles[i] \o <<"\n">> \o urls[i]]
                        IN  /\ out' = [Sent("links", BulkMessages(lines, MESSAGE_LIMIT))
                                         EXCEPT !.urls = urls]
                            /\ UNCHANGED <<conv_state, msgs>>
        /\ event' = Callback("copy_bulk", token)
        /\ UNCHANGED <<user, user_data>>

restart ==
    \E pressed \in BagToSet(msgs) : \E token \in pressed :
        /\ conv_state = "CONFIRM"
        /\ token = <<"", "restart">>
        /\ start(pressed, clear(user_data))
        /\ event' = Callback("restart", token)
        /\ UNCHANGED user

---------------------------------------------------------------------------
(* Navigation handlers: registered in every state *)

nav_cancel ==
    \E pressed \in BagToSet(msgs) : \E token \in pressed :
        /\ conv_state \in States
        /\ token = <<"", "nav_cancel">>
        /\ user_data' = clear(user_data)
        /\ Edit(pressed, NoKeyboard)
        /\ out' = Prompt("cancelled", NoKeyboard)
        /\ conv_state' = END
        /\ event' = Callback("nav_cancel", token)
        /\ UNCHANGED user

nav_back_to_page ==
    \E pressed \in BagToSet(msgs) : \E token \in pressed :
        /\ conv_state \in States
        /\ token = <<"", "back_to_page">>
        /\ start(pressed, user_data)
        /\ event' = Callback("nav_back_to_page", token)
        /\ UNCHANGED user

nav_back_to_channel_type ==
    \E pressed \in BagToSet(msgs) : \E token \in pressed :
        /\ conv_state \in States
        /\ token = <<"", "back_to_channel_type">>
        /\ _show_channel_type(pressed, user_data)
        /\ event' = Callback("nav_back_to_channel_type", token)
        /\ UNCHANGED <<user, user_data>>

nav_back_to_visibility ==
    \E pressed \in BagToSet(msgs) : \E token \in pressed :
        /\ conv_state \in States
        /\ token = <<"", "back_to_visibility">>
        /\ Edit(pressed, VisibilityKeyboard)
        /\ out' = Prompt("visibility", VisibilityKeyboard)
        /\ conv_state' = "SELECT_EARN_VISIBILITY"
        /\ event' = Callback("nav_back_to_visibility", token)
        /\ UNCHANGED <<user, user_data>>

nav_back_to_handle_mode ==
    \E pressed \in BagToSet(msgs) : \E token \in pressed :
        /\ conv_state \in States
        /\ token = <<"", "back_to_handle_mode">>
        /\ _show_handle_mode(pressed, user_data)
        /\ event' = Callback("nav_back_to_handle_mode", token)
        /\ UNCHANGED <<user, user_data>>

nav_back_to_handle ==
    \E pressed \in BagToSet(msgs) : \E token \in pressed :
        /\ conv_state \in States
        /\ token = <<"", "back_to_handle">>
        /\ Edit(pressed, NoKeyboard)
        /\ out' = Prompt("handle", NoKeyboard)
        /\ conv_state' = "INPUT_HANDLE"
        /\ event' = Callback("nav_back_to_handle", token)
        /\ UNCHANGED <<user, user_data>>

nav_back_to_bulk ==
    \E pressed \in BagToSet(msgs) : \E token \in pressed :
        /\ conv_state \in States
        /\ token = <<"", "back_to_bulk">>
        /\ Edit(pressed, NoKeyboard)
        /\ out' = Prompt("bulk_handles", NoKeyboard)
        /\ conv_state' = "INPUT_BULK_HANDLES"
        /\ event' = Callback("nav_back_to_bulk", token)
        /\ UNCHANGED <<user, user_data>>

\* the back target nav_back_to_campaign puts on the campaign keyboard
CampaignBackTarget(data) ==
    LET chtype == Get(data, "channel_type", "")
        mode   == Get(data, "handle_mode", "single")
    IN  IF chtype = "main" THEN "back_to_channel_type"
        ELSE IF mode = "bulk" THEN "back_to_bulk"
        ELSE "back_to_handle"

nav_back_to_campaign ==
    \E pressed \in BagToSet(msgs) : \E token \in pressed :
        /\ conv_state \in States
        /\ token = <<"", "back_to_campaign">>
        /\ Edit(pressed, CampaignKeyboard(CampaignBackTarget(user_data)))
        /\ out' = Prompt("campaign", CampaignKeyboard(CampaignBackTarget(user_data)))
        /\ conv_state' = "SELECT_CAMPAIGN"
        /\ event' = Callback("nav_back_to_campaign", token)
        /\ UNCHANGED <<user, user_data>>

nav_back_to_content ==
    \E pressed \in BagToSet(msgs) : \E token \in pressed :
        /\ conv_state \in States
        /\ token = <<"", "back_to_content">>
        /\ _show_content_type(pressed)
        /\ event' = Callback("nav_back_to_content", token)
        /\ UNCHANGED <<user, user_data>>

---------------------------------------------------------------------------
(* The specification *)

Next ==
    \/ start_command
    \/ cancel
    \/ page_url_text
    \/ channel_type_selected
    \/ earn_visibility_selected
    \/ handle_mode_selected
    \/ handle_received
    \/ bulk_handles_received
    \/ campaign_selected
    \/ custom_campaign_received
    \/ content_selected
    \/ copy_link
    \/ copy_bulk
    \/ restart
    \/ nav_cancel
    \/ nav_back_to_page
    \/ nav_back_to_channel_type
    \/ nav_back_to_visibility
    \/ nav_back_to_handle_mode
    \/ nav_back_to_handle
    \/ nav_back_to_bulk
    \/ nav_back_to_campaign
    \/ nav_back_to_content

Spec == Init /\ [][Next]_vars

---------------------------------------------------------------------------
(* Vocabulary of the properties *)

\* the number of each state in the source's range(10)
StateNumber ==
    [INPUT_PAGE_URL |-> 0, SELECT_CHANNEL_TYPE |-> 1, SELECT_EARN_VISIBILITY |-> 2,
     SELECT_HANDLE_MODE |-> 3, INPUT_HANDLE |-> 4, INPUT_BULK_HANDLES |-> 5,
     SELECT_CAMPAIGN |-> 6, ENTER_CUSTOM_CAMPAIGN |-> 7, SELECT_CONTENT_TYPE |-> 8,
     CONFIRM |-> 9]

\* the state each back token's handler leads to
BackLeadsTo ==
    [back_to_page |-> "INPUT_PAGE_URL", back_to_channel_type |-> "SELECT_CHANNEL_TYPE",
     back_to_visibility |-> "SELECT_EARN_VISIBILITY", back_to_handle_mode |-> "SELECT_HANDLE_MODE",
     back_to_handle |-> "INPUT_HANDLE", back_to_bulk |-> "INPUT_BULK_HANDLES",
     back_to_campaign |-> "SELECT_CAMPAIGN", back_to_content |-> "SELECT_CONTENT_TYPE"]

BackTokens == {<<"", b>> : b \in DOMAIN BackLeadsTo}

BackHandlers ==
    {"nav_back_to_page", "nav_back_to_channel_type", "nav_back_to_visibility",
     "nav_back_to_handle_mode", "nav_back_to_handle", "nav_back_to_bulk",
     "nav_back_to_campaign", "nav_back_to_content"}

\* the states a back action offered on keyboard kb leads to
BackTargets(kb) == {BackLeadsTo[t[2]] : t \in kb \cap BackTokens}

ChannelTypeIs(chtype) == Get(user_data, "channel_type", "") = chtype

HandleSet == Get(user_data, "handle", <<>>) # <<>>

BulkSet == Get(user_data, "bulk_handles", <<>>) # <<>>

---------------------------------------------------------------------------
(* C1 .. C10 *)

\* C1: selecting `main` in ChannelType sets handle to the operator medium and
\* handle_mode to single and moves to Campaign; from then until another channel
\* type is selected or the answers are cleared (that is, while channel_type is
\* "main") the session is never in Visibility, HandleMode, InputHandle or
\* InputBulkHandles.
C1_MainSkipsHandleSteps ==
    /\ [][(event'.handler = "channel_type_selected" /\ event'.token = <<"chtype_", "main">>)
            => /\ Get(user_data', "handle", <<>>) = MAIN_HANDLE
               /\ Get(user_data', "handle_mode", "") = "single"
               /\ conv_state' = "SELECT_CAMPAIGN"]_vars
    /\ [](ChannelTypeIs("main")
            => conv_state \notin {"SELECT_EARN_VISIBILITY", "SELECT_HANDLE_MODE",
                                  "INPUT_HANDLE", "INPUT_BULK_HANDLES"})

\* C2: a text that is invalid in its step (a handle that extracts to empty in
\* InputHandle, a block with no accepted handle in InputBulkHandles, a name that
\* sanitizes to empty in EnterCustomCampaign) leaves the step and every answer
\* as they were, at every attempt.
C2_InvalidTextKeepsState ==
    [][(\/ /\ event'.handler = "handle_received"
           /\ extract_yt_handle(event'.text) = <<>>
        \/ /\ event'.handler = "bulk_handles_received"
           /\ \A i \in DOMAIN BulkLines(event'.text) :
                  extract_yt_handle(BulkLines(event'.text)[i]) = <<>>
        \/ /\ event'.handler = "custom_campaign_received"
           /\ sanitize(event'.text) = <<>>)
         => conv_state' = conv_state /\ user_data' = user_data]_vars

\* an invalid handle was just refused in InputHandle, with answers collected
C2_Witness ==
    /\ event.handler = "handle_received"
    /\ extract_yt_handle(event.text) = <<>>
    /\ conv_state = "INPUT_HANDLE"
    /\ out.prompt = "handle_retry"
    /\ Has(user_data, "page")

\* C3: in every state of a running conversation /cancel is accepted; cancel (the
\* command or the button) empties user_data and ends the conversation, whatever
\* the state; a session start that follows a cancel shows the page prompt in
\* AwaitingPage with an empty user_data.
C3_CancelClearsSession ==
    /\ [](conv_state \in States => ENABLED cancel)
    /\ [][event'.handler \in {"cancel", "nav_cancel"}
            => user_data' = EmptyDict /\ conv_state' = END]_vars
    /\ [][(event.handler \in {"cancel", "nav_cancel"} /\ event'.handler = "start")
            => /\ conv_state' = "INPUT_PAGE_URL"
               /\ user_data' = EmptyDict
               /\ out' = Prompt("page", StartKeyboard)]_vars

\* /cancel has just ended a session that had reached Confirm
C3_Witness ==
    /\ event.handler = "cancel"
    /\ conv_state = END
    /\ user_data = EmptyDict
    /\ BagIn(ConfirmKeyboard, msgs)

\* C4: /start in any state, and the restart button in Confirm, put an allowed
\* operator in AwaitingPage with an empty user_data and show the page prompt.
C4_StartClearsAnswers ==
    [][(event'.handler \in {"start", "restart"} /\ is_allowed(user))
         => /\ conv_state' = "INPUT_PAGE_URL"
            /\ user_data' = EmptyDict
            /\ out' = Prompt("page", StartKeyboard)]_vars

\* the restart button of Confirm has just been pressed
C4_Witness ==
    /\ event.handler = "restart"
    /\ conv_state = "INPUT_PAGE_URL"
    /\ user_data = EmptyDict
    /\ out = Prompt("page", StartKeyboard)

\* C5: earn_visibility is defined only if channel_type is earn, also after the
\* operator went back to ChannelType and selected another channel type (the
\* "only if" half of the claim's equivalence).
C5_VisibilityOnlyForEarn ==
    Has(user_data, "earn_visibility") => ChannelTypeIs("earn")

\* C6: in Campaign, EnterCustomCampaign, ContentType and Confirm exactly one of
\* handle (non-empty) and bulk_handles (non-empty) holds a value.
C6_ExactlyOneHandleSource ==
    conv_state \in {"SELECT_CAMPAIGN", "ENTER_CUSTOM_CAMPAIGN", "SELECT_CONTENT_TYPE", "CONFIRM"}
        => (HandleSet /\ ~BulkSet) \/ (BulkSet /\ ~HandleSet)

\* C7: in single mode the URL shown on entering Confirm, the content id of the
\* summary and the URL every copy action sends all carry user_data["uid"].
C7_OneUidEverywhere ==
    (out.prompt \in {"confirm", "link"} /\ Has(user_data, "uid") /\ Has(user_data, "campaign_slug"))
        => /\ out.urls = <<build_utm_url(user_data, <<>>, user_data["uid"])>>
           /\ out.prompt = "confirm"
                => out.summary.content = user_data["content_type"] \o <<"_">> \o user_data["uid"]

\* C8: the prompt shown on entering any state but AwaitingPage offers a back
\* action, and the one offered in InputHandle and in InputBulkHandles leads to
\* HandleMode.
C8_BackOfferedInEveryStep ==
    [][(conv_state' # conv_state /\ conv_state' \in States \ {"INPUT_PAGE_URL"})
         => /\ out'.keyboard \cap BackTokens # {}
            /\ conv_state' \in {"INPUT_HANDLE", "INPUT_BULK_HANDLES"}
                 => BackTargets(out'.keyboard) = {"SELECT_HANDLE_MODE"}]_vars

\* C9: the back action offered by the campaign prompt leads to ChannelType if
\* channel_type is main, to InputBulkHandles if handle_mode is bulk, and to
\* InputHandle otherwise, however Campaign was entered.
C9_CampaignBackTarget ==
    (conv_state = "SELECT_CAMPAIGN" /\ out.prompt = "campaign")
        => BackTargets(out.keyboard) =
              {IF ChannelTypeIs("main") THEN "SELECT_CHANNEL_TYPE"
               ELSE IF Get(user_data, "handle_mode", "") = "bulk" THEN "INPUT_BULK_HANDLES"
               ELSE "INPUT_HANDLE"}

\* C10: every back action moves to an earlier step and leaves every answer
\* as it was.
C10_BackKeepsAnswers ==
    [][event'.handler \in BackHandlers
         => /\ user_data' = user_data
            /\ StateNumber[conv_state'] < StateNumber[conv_state]]_vars

---------------------------------------------------------------------------
(* C11 .. C20 *)

\* C11: no sequence of texts, issued option tokens, /start and /cancel makes a
\* handler fail on a missing answer or registry key: no handler raises, the
\* channel-type prompt is only rendered with `page` set, and a URL is only built
\* with campaign_slug and content_type set.
C11_NoProgrammingError ==
    /\ out.kind # "error"
    /\ out.prompt = "channel_type" => Has(user_data, "page")
    /\ out.urls # <<>> => Has(user_data, "campaign_slug") /\ Has(user_data, "content_type")

---------------------------------------------------------------------------
(* Splitting the bulk copy: sessions in Confirm whose handles are long enough
   for copy_bulk to split what it sends *)

\* the character c, n times
Repeat(c, n) == [i \in 1..n |-> c]

\* handles whose blocks ("@handle\nurl": 106 characters besides the two copies
\* of the handle) are short, about half the limit, the limit itself, and more
LongHandles ==
    {Repeat("a", 1), Repeat("b", 946), Repeat("c", 948), Repeat("d", 1947), Repeat("e", 1948)}

\* the longest bulk text the operator sends: a Telegram message
MaxBulkText == 4096

RECURSIVE TotalLen(_)
TotalLen(seqs) == IF seqs = <<>> THEN 0 ELSE Len(Head(seqs)) + TotalLen(Tail(seqs))

\* the bulk_handles that bulk_handles_received stores for a text of one to three
\* lines, each one of LongHandles: no handle twice
ChunkHandleLists ==
    {handles \in UNION {[1..n -> LongHandles] : n \in 1..3} :
        /\ \A i, j \in DOMAIN handles : handles[i] = handles[j] => i = j
        /\ TotalLen(handles) + Len(handles) - 1 <= MaxBulkText}

\* the answers of a bulk session that has reached Confirm
ChunkAnswers(handles) ==
    [page           |-> <<"/", "k", "l", "i", "n", "g", "-", "3">>,
     channel_type   |-> "selected",
     handle_mode    |-> "bulk",
     bulk_handles   |-> handles,
     handle         |-> <<>>,
     campaign_slug  |-> CAMPAIGNS["kling_3"].slug,
     campaign_label |-> CAMPAIGNS["kling_3"].label,
     content_type   |-> CONTENT_TYPES["dedicated"]]

\* content_selected has just shown the bulk confirmation
ChunkInit ==
    /\ user \in Users \cap ALLOWED_USERS
    /\ conv_state = "CONFIRM"
    /\ user_data \in {ChunkAnswers(handles) : handles \in ChunkHandleLists}
    /\ msgs = SetToBag({BulkConfirmKeyboard})
    /\ \E uids \in [1..Len(user_data["bulk_handles"]) -> GeneratedIds] :
           out = [Prompt("bulk_confirm", BulkConfirmKeyboard)
                    EXCEPT !.urls =
                       IF Len(build_bulk_summary(user_data, user_data["bulk_handles"], uids))
                              > SUMMARY_LIMIT
                       THEN <<>>
                       ELSE BulkUrls(user_data, user_data["bulk_handles"], uids)]
    /\ event = Callback("content_selected", <<"content_", "dedicated">>)

ChunkNext == copy_bulk

SpecChunk == ChunkInit /\ [][ChunkNext]_vars

\* the blocks of all chunks, in chunk order
RECURSIVE Flatten(_)
Flatten(chunks) == IF chunks = <<>> THEN <<>> ELSE Head(chunks) \o Flatten(Tail(chunks))

\* the blocks copy_bulk built for the links it has just sent
SentBlocks ==
    LET handles == Get(user_data, "bulk_handles", <<>>)
    IN  [i \in 1..Len(handles) |-> <<"@">> \o handles[i] \o <<"\n">> \o out.urls[i]]

\* C12: no chunk of the bulk copy is longer than the limit, except a chunk of
\* one block that alone is longer than the limit; the blocks of all chunks in
\* chunk order are the blocks built, in order; each message sent when the text
\* is split ends with its chunk.
C12_ChunksWithinLimit ==
    (event.handler = "copy_bulk" /\ out.prompt = "links")
        => LET sep    == <<"\n", "\n">>
               chunks == SplitBlocks(SentBlocks, MESSAGE_LIMIT)
               Text_(i) == join(sep, chunks[i])
           IN  /\ \A i \in DOMAIN chunks :
                     \/ Len(Text_(i)) <= MESSAGE_LIMIT
                     \/ Len(chunks[i]) = 1 /\ Len(chunks[i][1]) > MESSAGE_LIMIT
               /\ Flatten(chunks) = SentBlocks
               /\ Len(join(sep, SentBlocks)) > MESSAGE_LIMIT
                     => /\ Len(out.texts) = Len(chunks)
                        /\ \A i \in DOMAIN chunks :
                              /\ Len(out.texts[i]) >= Len(Text_(i))
                              /\ SubSeq(out.texts[i], Len(out.texts[i]) - Len(Text_(i)) + 1,
                                        Len(out.texts[i])) = Text_(i)

\* a bulk copy was split: one chunk holds two blocks, another one a block that
\* alone is longer than the limit
C12_Witness ==
    /\ event.handler = "copy_bulk"
    /\ out.prompt = "links"
    /\ Len(out.texts) >= 2
    /\ \E i \in DOMAIN SplitBlocks(SentBlocks, MESSAGE_LIMIT) :
           Len(SplitBlocks(SentBlocks, MESSAGE_LIMIT)[i]) = 2
    /\ \E i \in DOMAIN SentBlocks : Len(SentBlocks[i]) > MESSAGE_LIMIT

\* C13: copy_link and copy_bulk, pressed in Confirm, send one link per handle
\* (one link in single mode) as plain messages and change nothing else: the
\* state stays Confirm, user_data and the keyboards in the chat are unchanged,
\* at every press.
C13_CopyChangesNothing ==
    [][event'.handler \in {"copy_link", "copy_bulk"}
         => /\ conv_state = "CONFIRM"
            /\ conv_state' = "CONFIRM"
            /\ user_data' = user_data
            /\ msgs' = msgs
            /\ out'.kind = "message"
            /\ out'.keyboard = NoKeyboard
            /\ Len(out'.urls) = IF event'.handler = "copy_link" THEN 1
                                ELSE Len(Get(user_data, "bulk_handles", <<>>))
            /\ event'.handler = "copy_link" => out'.texts = out'.urls]_vars

\* the links of a bulk session with two handles have just been copied
C13_Witness ==
    /\ event.handler = "copy_bulk"
    /\ conv_state = "CONFIRM"
    /\ out.kind = "message"
    /\ Len(out.urls) = 2
    /\ Len(Get(user_data, "bulk_handles", <<>>)) = 2

\* where the text pat starts in text, 0 if nowhere
IndexOf(text, pat) ==
    LET found == {i \in 1..(Len(text) - Len(pat) + 1) : SubSeq(text, i, i + Len(pat) - 1) = pat}
    IN  IF found = {} THEN 0 ELSE CHOOSE i \in found : \A j \in found : i <= j

\* the query string of a built URL: what follows the first "?"
QueryOf(url) == SubSeq(url, IndexOf(url, <<"?">>) + 1, Len(url))

\* the split of a text at each occurrence of the character c
RECURSIVE SplitAt(_, _)
SplitAt(text, c) ==
    LET i == IndexOf(text, <<c>>)
    IN  IF i = 0 THEN <<text>>
        ELSE <<SubSeq(text, 1, i - 1)>> \o SplitAt(SubSeq(text, i + 1, Len(text)), c)

\* the query parameters of a built URL, in order, as <<name, value>> pairs
QueryParams(url) ==
    LET parts == SplitAt(QueryOf(url), "&")
    IN  [i \in DOMAIN parts |->
            LET eq == IndexOf(parts[i], <<"=">>)
            IN  <<SubSeq(parts[i], 1, eq - 1), SubSeq(parts[i], eq + 1, Len(parts[i]))>>]

\* the value of the first query parameter called name
ParamOf(url, name) ==
    LET params == QueryParams(url)
        i == CHOOSE j \in DOMAIN params : params[j][1] = name /\ \A k \in 1..(j - 1) : params[k][1] # name
    IN  params[i][2]

UTM_SOURCE == <<"u", "t", "m", "_", "s", "o", "u", "r", "c", "e">>

\* the source the current answers stand for
SourceOfAnswers ==
    LET channel_type == Get(user_data, "channel_type", "")
        visibility   == Get(user_data, "earn_visibility", "missing")
    IN  IF channel_type = "earn"
        THEN IF visibility = "pr"
             THEN <<"y", "o", "u", "t", "u", "b", "e", "_", "e", "_", "p", "r">>
             ELSE <<"y", "o", "u", "t", "u", "b", "e", "_", "e", "_", "p", "u">>
        ELSE IF channel_type = "main"
        THEN <<"y", "o", "u", "t", "u", "b", "e", "_", "m">>
        ELSE <<"y", "o", "u", "t", "u", "b", "e", "_", "s">>

\* C14: the source is youtube_e_pu for earn with public visibility or none,
\* youtube_e_pr for earn with private, youtube_m for main and youtube_s for any
\* other channel type; every URL rendered in Confirm, and the source of the
\* summary, carries the source of the current channel_type and earn_visibility.
C14_SourceDerivation ==
    /\ out.prompt \in {"confirm", "bulk_confirm", "link", "links"}
          => \A i \in DOMAIN out.urls : ParamOf(out.urls[i], UTM_SOURCE) = SourceOfAnswers
    /\ out.prompt = "confirm" => out.summary.source = SourceOfAnswers

\* Confirm shows the URL of an earn session with private visibility
C14_Witness ==
    /\ out.prompt = "confirm"
    /\ conv_state = "CONFIRM"
    /\ ChannelTypeIs("earn")
    /\ Get(user_data, "earn_visibility", "") = "pr"
    /\ ParamOf(out.urls[1], UTM_SOURCE)
           = <<"y", "o", "u", "t", "u", "b", "e", "_", "e", "_", "p", "r">>

\* the texts and the answers of the end-to-end scenario
KLING_3_PAGE == <<"/", "k", "l", "i", "n", "g", "-", "3">>

CREATORX == <<"c", "r", "e", "a", "t", "o", "r", "x">>

\* page_url_text handles the text "/kling-3" and stores it as the page
ScenarioPageStep ==
    /\ page_url_text
    /\ event'.text = KLING_3_PAGE
    /\ conv_state' = "SELECT_CHANNEL_TYPE"
    /\ Get(user_data', "page", <<>>) = KLING_3_PAGE

\* the answers the scenario has collected when it reaches Confirm
ScenarioAnswers(data) ==
    /\ Get(data, "page", <<>>) = KLING_3_PAGE
    /\ Get(data, "channel_type", "") = "selected"
    /\ Get(data, "handle_mode", "") = "single"
    /\ Get(data, "handle", <<>>) = CREATORX
    /\ Get(data, "bulk_handles", <<>>) = <<>>
    /\ Get(data, "campaign_slug", <<>>) = CAMPAIGNS["kling_3"].slug
    /\ Get(data, "content_type", <<>>) = CONTENT_TYPES["dedicated"]

\* C15: start, page "/kling-3", channel type selected, handle mode single,
\* handle "@CreatorX", campaign kling_3, content type dedicated: each event is
\* accepted in its step and leads to the next one (AwaitingPage, ChannelType,
\* HandleMode, InputHandle, Campaign, ContentType, Confirm), the answers are
\* page=/kling-3, handle=creatorx, campaign_slug=kling_3, content_type=de, and
\* the URL of Confirm is https://higgsfield.ai/kling-3 with the parameters
\* utm_source=youtube_s, utm_medium=creatorx, utm_campaign=kling_3,
\* utm_content=de_<uid> in this order.
C15_EndToEndScenario ==
    /\ []((conv_state = "INPUT_PAGE_URL" /\ BagCardinality(msgs) < MaxMsgs)
            => ENABLED ScenarioPageStep)
    /\ [][/\ (event'.handler = "start" /\ is_allowed(user))
                => conv_state' = "INPUT_PAGE_URL"
          /\ (event'.handler = "channel_type_selected" /\ event'.token[2] = "selected")
                => conv_state = "SELECT_CHANNEL_TYPE" /\ conv_state' = "SELECT_HANDLE_MODE"
          /\ (event'.handler = "handle_mode_selected" /\ event'.token[2] = "single")
                => conv_state = "SELECT_HANDLE_MODE" /\ conv_state' = "INPUT_HANDLE"
          /\ (event'.handler = "handle_received"
                  /\ event'.text = <<"@", "C", "r", "e", "a", "t", "o", "r", "X">>)
                => /\ conv_state = "INPUT_HANDLE" /\ conv_state' = "SELECT_CAMPAIGN"
                   /\ Get(user_data', "handle", <<>>) = CREATORX
          /\ (event'.handler = "campaign_selected" /\ event'.token[2] = "kling_3")
                => /\ conv_state = "SELECT_CAMPAIGN" /\ conv_state' = "SELECT_CONTENT_TYPE"
                   /\ Get(user_data', "campaign_slug", <<>>) = CAMPAIGNS["kling_3"].slug
          /\ (event'.handler = "content_selected" /\ event'.token[2] = "dedicated"
                  /\ ScenarioAnswers(user_data'))
                => /\ conv_state = "SELECT_CONTENT_TYPE" /\ conv_state' = "CONFIRM"
                   /\ \E uid \in GeneratedIds :
                         out'.urls = << BASE_URL \o KLING_3_PAGE
                            \o <<"?", "u", "t", "m", "_", "s", "o", "u", "r", "c", "e", "=",
                                 "y", "o", "u", "t", "u", "b", "e", "_", "s">>
                            \o <<"&", "u", "t", "m", "_", "m", "e", "d", "i", "u", "m", "=">>
                            \o CREATORX
                            \o <<"&", "u", "t", "m", "_", "c", "a", "m", "p", "a", "i", "g", "n", "=",
                                 "k", "l", "i", "n", "g", "_", "3">>
                            \o <<"&", "u", "t", "m", "_", "c", "o", "n", "t", "e", "n", "t", "=",
                                 "d", "e", "_">> \o uid >>]_vars

\* C16: earn in ChannelType leads to Visibility, and a visibility there to
\* HandleMode; selected in ChannelType leads to HandleMode at once; in HandleMode
\* single leads to InputHandle and bulk to InputBulkHandles; a text whose handle
\* extracts non-empty, or a bulk text with at least one accepted line, leads to
\* Campaign.
C16_ForwardBranching ==
    [][/\ (event'.handler = "channel_type_selected" /\ event'.token[2] = "earn")
             => conv_state = "SELECT_CHANNEL_TYPE" /\ conv_state' = "SELECT_EARN_VISIBILITY"
       /\ event'.handler = "earn_visibility_selected"
             => /\ conv_state = "SELECT_EARN_VISIBILITY" /\ conv_state' = "SELECT_HANDLE_MODE"
                /\ Get(user_data', "earn_visibility", "") = event'.token[2]
       /\ (event'.handler = "channel_type_selected" /\ event'.token[2] = "selected")
             => conv_state = "SELECT_CHANNEL_TYPE" /\ conv_state' = "SELECT_HANDLE_MODE"
       /\ (event'.handler = "handle_mode_selected" /\ event'.token[2] = "single")
             => conv_state = "SELECT_HANDLE_MODE" /\ conv_state' = "INPUT_HANDLE"
       /\ (event'.handler = "handle_mode_selected" /\ event'.token[2] = "bulk")
             => conv_state = "SELECT_HANDLE_MODE" /\ conv_state' = "INPUT_BULK_HANDLES"
       /\ (event'.handler = "handle_received" /\ extract_yt_handle(event'.text) # <<>>)
             => /\ conv_state = "INPUT_HANDLE" /\ conv_state' = "SELECT_CAMPAIGN"
                /\ Get(user_data', "handle", <<>>) = extract_yt_handle(event'.text)
       /\ (event'.handler = "bulk_handles_received"
              /\ \E i \in DOMAIN BulkLines(event'.text) :
                     extract_yt_handle(BulkLines(event'.text)[i]) # <<>>)
             => /\ conv_state = "INPUT_BULK_HANDLES" /\ conv_state' = "SELECT_CAMPAIGN"
                /\ Get(user_data', "bulk_handles", <<>>) # <<>>]_vars

\* an earn session went through Visibility, HandleMode and InputBulkHandles and
\* has just entered Campaign
C16_Witness ==
    /\ event.handler = "bulk_handles_received"
    /\ conv_state = "SELECT_CAMPAIGN"
    /\ ChannelTypeIs("earn")
    /\ Get(user_data, "earn_visibility", "") = "pr"
    /\ Get(user_data, "handle_mode", "") = "bulk"
    /\ BulkSet

\* C17: a content-type selection in ContentType always moves to Confirm, by the
\* bulk path if bulk_handles is populated and by the single path otherwise; the
\* single path stores a generated uid in that step, and no other step changes
\* uid, except by clearing the answers.
C17_ContentSelectionConfirms ==
    [][/\ event'.handler = "content_selected"
             => /\ conv_state = "SELECT_CONTENT_TYPE"
                /\ conv_state' = "CONFIRM"
                /\ Get(user_data', "content_type", <<>>) = CONTENT_TYPES[event'.token[2]]
                /\ IF Get(user_data, "bulk_handles", <<>>) # <<>>
                   THEN /\ out'.prompt = "bulk_confirm"
                        /\ Get(user_data', "uid", <<>>) = Get(user_data, "uid", <<>>)
                   ELSE /\ out'.prompt = "confirm"
                        /\ Get(user_data', "uid", <<>>) \in GeneratedIds
       /\ event'.handler # "content_selected"
             => \/ Get(user_data', "uid", <<>>) = Get(user_data, "uid", <<>>)
                \/ user_data' = EmptyDict]_vars

\* C18: the back action of the handle-mode prompt leads to Visibility when
\* channel_type is earn and to ChannelType otherwise, whether HandleMode was
\* entered forward or by going back.
C18_HandleModeBackTarget ==
    out.prompt = "handle_mode"
        => /\ conv_state = "SELECT_HANDLE_MODE"
           /\ BackTargets(out.keyboard) =
                 {IF ChannelTypeIs("earn") THEN "SELECT_EARN_VISIBILITY"
                  ELSE "SELECT_CHANNEL_TYPE"}

\* an earn session has gone back to HandleMode
C18_Witness ==
    /\ event.handler = "nav_back_to_handle_mode"
    /\ conv_state = "SELECT_HANDLE_MODE"
    /\ out.prompt = "handle_mode"
    /\ ChannelTypeIs("earn")
    /\ BagIn(HandleModeKeyboard("back_to_visibility"), msgs)

FirstIndex(seq, x) ==
    LET at == {i \in DOMAIN seq : seq[i] = x}
    IN  IF at = {} THEN 0 ELSE CHOOSE i \in at : \A j \in at : i <= j

\* the handle extracted from each line of a bulk text, empty for a rejected line
ExtractedOf(text) ==
    [i \in DOMAIN BulkLines(text) |-> extract_yt_handle(BulkLines(text)[i])]

\* C20: a line of a bulk text is accepted if and only if its extracted handle is
\* non-empty, and bulk_handles holds the accepted handles once each in the
\* order of their first occurrence: never an empty handle, never a handle twice.
C20_BulkParsing ==
    /\ [](LET stored == Get(user_data, "bulk_handles", <<>>)
          IN  /\ \A i \in DOMAIN stored : stored[i] # <<>>
              /\ \A i, j \in DOMAIN stored : stored[i] = stored[j] => i = j)
    /\ [][(event'.handler = "bulk_handles_received" /\ conv_state' = "SELECT_CAMPAIGN")
            => LET extracted == ExtractedOf(event'.text)
                   stored    == Get(user_data', "bulk_handles", <<>>)
               IN  /\ {stored[i] : i \in DOMAIN stored}
                         = {extracted[i] : i \in DOMAIN extracted} \ {<<>>}
                   /\ \A i, j \in DOMAIN stored :
                         i < j => FirstIndex(extracted, stored[i]) < FirstIndex(extracted, stored[j])
                   /\ out'.summary.skipped
                         = Cardinality({i \in DOMAIN extracted : extracted[i] = <<>>})]_vars

\* a bulk text with a repeated handle and a rejected line has been accepted
C20_Witness ==
    /\ event.handler = "bulk_handles_received"
    /\ conv_state = "SELECT_CAMPAIGN"
    /\ Get(user_data, "bulk_handles", <<>>)
          = << <<"m", "k", "b", "h", "d">>, <<"l", "i", "n", "u", "s", "t", "e", "c", "h">> >>
    /\ Len(ExtractedOf(event.text)) = 4
    /\ out.summary.skipped = 1

---------------------------------------------------------------------------
(* C21 .. C25 *)

\* every way to cut the blocks `lines` into consecutive non-empty chunks that
\* keep the order of the blocks
RECURSIVE Packings(_)
Packings(lines) ==
    IF lines = <<>> THEN {<<>>}
    ELSE UNION {{<<SubSeq(lines, 1, k)>> \o rest :
                    rest \in Packings(SubSeq(lines, k + 1, Len(lines)))} :
                k \in 1..Len(lines)}

\* no chunk of the packing, joined as copy_bulk joins it, is longer than the
\* limit, except a block that alone is longer, placed alone
WithinLimit(packing, limit) ==
    \A i \in DOMAIN packing :
        \/ Len(join(<<"\n", "\n">>, packing[i])) <= limit
        \/ Len(packing[i]) = 1 /\ Len(packing[i][1]) > limit

\* C21: the chunks of a bulk copy are the fewest possible: no packing of the
\* blocks built that keeps their order and keeps every chunk within the limit
\* (a block longer than the limit alone in its chunk) has fewer chunks than the
\* number of messages copy_bulk sent.
C21_GreedyFewest ==
    (event.handler = "copy_bulk" /\ out.prompt = "links")
        => \A packing \in Packings(SentBlocks) :
               WithinLimit(packing, MESSAGE_LIMIT) => Len(packing) >= Len(out.texts)

\* C25: every message copy_bulk sends carries at least one of the blocks built:
\* no chunk is empty, also when the first block alone is longer than the limit.
C25_NoEmptyChunk ==
    (event.handler = "copy_bulk" /\ out.prompt = "links")
        => \A i \in DOMAIN out.texts :
               \E j \in DOMAIN SentBlocks :
                   /\ Len(out.texts[i]) >= Len(SentBlocks[j])
                   /\ SubSeq(out.texts[i], Len(out.texts[i]) - Len(SentBlocks[j]) + 1,
                             Len(out.texts[i])) = SentBlocks[j]

UTM_MEDIUM == <<"u", "t", "m", "_", "m", "e", "d", "i", "u", "m">>

\* the identifier of a built URL: the five characters that end utm_content, the
\* last parameter of the URL
UidOf(url) == SubSeq(url, Len(url) - 4, Len(url))

\* a built URL up to its identifier: page, source, medium, campaign and the
\* content-type code
WithoutUid(url) == SubSeq(url, 1, Len(url) - 5)

\* this step is a bulk copy that follows a render of the same bulk links: the
\* summary shown on entering Confirm, or an earlier bulk copy
BulkRenderedAgain ==
    /\ out.prompt \in {"bulk_confirm", "links"}
    /\ out.urls # <<>>
    /\ event'.handler = "copy_bulk"
    /\ out'.prompt = "links"

C23_SingleModeConfirmsSingle ==
    [][(/\ event'.handler = "content_selected"
        /\ conv_state' = "CONFIRM"
        /\ Get(user_data', "handle_mode", "") = "single")
         => /\ out'.prompt = "confirm"
            /\ Len(out'.urls) = 1
            /\ ParamOf(out'.urls[1], UTM_MEDIUM) = Get(user_data', "handle", <<>>)]_vars

\* C24: every URL rendered at Confirm or sent by a copy action has a non-empty
\* medium: the single confirmation and copy_link render with a non-empty
\* user_data["handle"], the bulk confirmation and copy_bulk with at least one
\* bulk handle, every one non-empty.
C24_MediumNeverEmpty ==
    /\ out.prompt \in {"confirm", "bulk_confirm", "link", "links"}
          => \A i \in DOMAIN out.urls : ParamOf(out.urls[i], UTM_MEDIUM) # <<>>
    /\ out.prompt \in {"confirm", "link"} => HandleSet
    /\ out.prompt \in {"bulk_confirm", "links"}
          => /\ BulkSet
             /\ \A i \in DOMAIN user_data["bulk_handles"] : user_data["bulk_handles"][i] # <<>>

===========================================================================
